---- MODULE Spec2Model ----
(***************************************************************************)
(* Authentication core of go-server: registration, login, bearer tokens,  *)
(* sessions and the expiry over the users and sessions tables.     *)
(*                                                                         *)
(* Time is a discrete clock; one unit is one hour, so the 24 hour session *)
(* lifetime is 24 units.  Register and Login are split at their store     *)
(* calls, which is where concurrent requests interleave.                  *)
(* The middleware that guards the handlers and the per-address rate       *)
(* limiter are modelled next to it.                                        *)
(***************************************************************************)
EXTENDS Integers, Sequences, FiniteSets, TLC

\* ------------------------------------------------------------------ bounds
\* instants explored after time zero, and after one session lifetime
MaxEarly == 1
MaxLate == 1
MaxSessions == 2
MaxTokens == 1
\* requests that the rate limiter lets through, over all addresses
MaxGrants == 4

\* --------------------------------------------------------------- constants
\* Login: time.Now().Add(24 * time.Hour)
SessionLifetime == 24
\* JWTManager.tokenDuration, injected at construction
TokenDuration == 2

Procs == {1, 2}
\* one request in flight, interleaved with the operations that are single store calls
OneProc == {1}
Emails == {"a@x.com", "A@x.com", "b@x.com"}
Usernames == {"alice", "bob"}
Passwords == {"Secret123", "wrong1"}
RegisterPasswords == {"Secret123"}
RegisterEmails == {"a@x.com", "A@x.com"}
\* the address a profile update moves an account to
NewEmails == {"A@x.com"}
\* the account whose flags other operations change
ChangedAccounts == {1}
\* The instants at which something is observed to happen.
EarlyInstants == 0..MaxEarly
Instants == {0} \cup (SessionLifetime..(SessionLifetime + MaxLate))
\* up to the expiry of a bearer token issued at time zero, and past it
TokenInstants == 0..(TokenDuration + MaxEarly)
IPs == {"10.0.0.1"}
\* RateLimitConfig, injected at construction: requests per window, and the
\* window in clock units
RequestsPerMinute == 2
WindowDuration == 2
RateIPs == {"10.0.0.1", "10.0.0.2"}
\* instants up to two windows, and past them
RateInstants == 0..(2 * WindowDuration + MaxEarly)
Agents == {"curl"}
ExtendDurations == {SessionLifetime}

\* Letter-case folding of the e-mail addresses used here (strings.ToLower).
ToLower(s) == IF s = "A@x.com" THEN "a@x.com" ELSE s

\* ------------------------------------------------------------ error values
NoError == ""
ErrEmailTaken == "email already registered"
ErrUsernameTaken == "username already taken"
ErrCreateUser == "failed to create user: duplicate key value violates unique constraint"
ErrInvalidCredentials == "invalid credentials"
ErrLoginDeactivated == "account is deactivated"
ErrCreateSession == "failed to create session: duplicate key value violates unique constraint"
ErrTokenExpired == "invalid token: token is expired"
ErrUserNotFound == "user not found: record not found"
ErrDeactivated == "user account is deactivated"
\* what the operations make of the error of a store call under a cancelled context
ErrCreateUserCancelled == "failed to create user: context canceled"
ErrCreateSessionCancelled == "failed to create session: context canceled"
ErrDeleteSessionCancelled == "failed to delete session: context canceled"
ErrUserLookupCancelled == "user not found: context canceled"
ErrUpdateUser == "failed to update user"
\* warnings that are printed and not returned
WarnLastLogin == "Warning: failed to update last login"
WarnCacheUser == "Warning: failed to cache user"
WarnCacheSession == "Warning: failed to delete session from cache"
WarnClearCache == "Failed to clear user cache"

VARIABLES
    now,        \* the clock read by time.Now()
    users,      \* users table, row i has primary key i
    sessions,   \* sessions table, soft-deleted rows included
    issued,     \* bearer tokens handed to callers (their claims)
    pc,         \* position of each in-flight Register/Login call
    local,      \* locals of each in-flight call
    deactivated,\* ids of users whose active flag an update set to false
    refreshed,  \* bearer tokens that a successful RefreshToken was given
    cache,      \* keys present in the cache
    cancelled,  \* the context of the calls in progress is cancelled or past its deadline
    cacheDown,  \* the cache answers every call with an error
    requests,   \* RateLimiter.requests: per IP, the times of the requests it counted
    grants,     \* per IP, the times of all requests that IsAllowed let through
    ret         \* what the step that led here returned to its caller, if anything,
                \* with the number of rows its statement affected

vars == <<now, users, sessions, issued, pc, local, deactivated, refreshed, cache, cancelled,
         cacheDown, requests, grants, ret>>

\* ------------------------------------------------------------------ values
NoUser == [ID |-> 0, Email |-> "", Username |-> "", Password |-> <<>>,
           IsActive |-> FALSE, IsAdmin |-> FALSE, LastLogin |-> -1]
NoClaims == [UserID |-> 0, Username |-> "", Email |-> "", IsAdmin |-> FALSE,
             IssuedAt |-> -1, ExpiresAt |-> -1]
NoToken == <<>>
NoSession == [UserID |-> 0, Token |-> NoToken, ExpiresAt |-> -1, IPAddress |-> "",
              UserAgent |-> "", IsActive |-> FALSE, Deleted |-> FALSE, CreatedAt |-> -1]
NoReq == [Email |-> "", Username |-> "", Password |-> "", IP |-> "", Agent |-> ""]
NoLocal == [req |-> NoReq, user |-> NoUser, jwt |-> NoClaims, session |-> NoSession]
NoRet == [op |-> "", err |-> NoError, req |-> NoReq, user |-> NoUser,
          jwt |-> NoClaims, arg |-> NoClaims, sessionID |-> NoToken, userID |-> 0,
          rows |-> 0, session |-> NoSession, ctxErr |-> FALSE, log |-> {},
          status |-> 0, code |-> ""]

\* ------------------------------------------------------- password hashing
\* bcrypt.GenerateFromPassword: a digest that is not the plaintext.
hashPassword(password) == <<"$2a$10$", password>>
\* bcrypt.CompareHashAndPassword(hash, password) = nil
verifyPassword(password, hash) == hash = <<"$2a$10$", password>>

\* ------------------------------------------------------------- users table
UserIDs == DOMAIN users
\* WHERE email = ? : exact, case-sensitive comparison
GetUserByEmail(email) ==
    IF \E i \in UserIDs : users[i].Email = email
    THEN users[CHOOSE i \in UserIDs : users[i].Email = email]
    ELSE NoUser
GetUserByUsername(username) ==
    IF \E i \in UserIDs : users[i].Username = username
    THEN users[CHOOSE i \in UserIDs : users[i].Username = username]
    ELSE NoUser
GetUserByID(id) == IF id \in UserIDs THEN users[id] ELSE NoUser

\* uniqueIndex on email and on username: does inserting or updating row id
\* to (email, username) collide with another row?
UniqueViolation(id, email, username) ==
    \E i \in UserIDs : i # id /\ (users[i].Email = email \/ users[i].Username = username)

\* Does userRepo.UpdateUser(u) return an error?
UpdateUserFails(u) == cancelled \/ UniqueViolation(u.ID, u.Email, u.Username)
\* db.Save(user): UPDATE of every column of the row with the record's key.
SaveUser(u) ==
    IF UpdateUserFails(u) THEN users
    ELSE [users EXCEPT ![u.ID] = u]
\* Does a call of the cache return an error?
CacheFails == cancelled \/ cacheDown

\* ---------------------------------------------------------------- tokens
\* A GenerateToken whose not-before time lies one unit ahead.
GenerateTokenNotYetValid(u) ==
    [UserID |-> u.ID, Username |-> u.Username, Email |-> u.Email, IsAdmin |-> u.IsAdmin,
     IssuedAt |-> now + 1, ExpiresAt |-> now + TokenDuration]

\* JWTManager.GenerateToken: the claims signed into the bearer token.
GenerateToken(u) ==
    [UserID |-> u.ID, Username |-> u.Username, Email |-> u.Email, IsAdmin |-> u.IsAdmin,
     IssuedAt |-> now, ExpiresAt |-> now + TokenDuration]
\* A validation that tolerates a clock skew of one unit.
JWTValidWithLeeway(claims) == now <= claims.ExpiresAt + 1 /\ claims.IssuedAt <= now

\* JWTManager.ValidateToken: exp is verified as now.Before(exp), and nbf, which
\* GenerateToken sets to the time of issue, as not after now.
JWTValid(claims) == now < claims.ExpiresAt /\ claims.IssuedAt <= now

Init ==
    /\ now = 0
    /\ users = <<>>
    /\ sessions = <<>>
    /\ issued = {}
    /\ pc = [p \in Procs |-> "idle"]
    /\ local = [p \in Procs |-> NoLocal]
    /\ deactivated = {}
    /\ refreshed = {}
    /\ cache = {}
    /\ cancelled = FALSE
    /\ cacheDown = FALSE
    /\ requests = [ip \in {} |-> <<>>]
    /\ grants = [ip \in RateIPs |-> <<>>]
    /\ ret = NoRet

\* ---------------------------------------------------------------- Register
\* Entry of Register and its first store call, GetUserByEmail, whose error is
\* dropped: under a cancelled context no user is found.
RegisterCheckEmail(p) ==
    /\ pc[p] = "idle"
    /\ \E e \in RegisterEmails, n \in Usernames, pw \in RegisterPasswords :
        LET req == [NoReq EXCEPT !.Email = e, !.Username = n, !.Password = pw] IN
        IF ~cancelled /\ GetUserByEmail(req.Email) # NoUser
        THEN /\ ret' = [NoRet EXCEPT !.op = "Register", !.err = ErrEmailTaken, !.req = req]
             /\ UNCHANGED <<requests, grants, pc, local>>
        ELSE /\ pc' = [pc EXCEPT ![p] = "reg_username"]
             /\ local' = [local EXCEPT ![p] = [NoLocal EXCEPT !.req = req]]
             /\ ret' = NoRet
    /\ UNCHANGED <<requests, grants, now, users, sessions, issued, deactivated, refreshed, cache, cancelled, cacheDown>>

RegisterCheckUsername(p) ==
    /\ pc[p] = "reg_username"
    /\ IF ~cancelled /\ GetUserByUsername(local[p].req.Username) # NoUser
       THEN /\ pc' = [pc EXCEPT ![p] = "idle"]
            /\ local' = [local EXCEPT ![p] = NoLocal]
            /\ ret' = [NoRet EXCEPT !.op = "Register", !.err = ErrUsernameTaken,
                                    !.req = local[p].req]
       ELSE /\ pc' = [pc EXCEPT ![p] = "reg_create"]
            /\ local' = local
            /\ ret' = NoRet
    /\ UNCHANGED <<requests, grants, now, users, sessions, issued, deactivated, refreshed, cache, cancelled, cacheDown>>

\* hashPassword, CreateUser, GenerateToken, return
RegisterCreate(p) ==
    /\ pc[p] = "reg_create"
    /\ pc' = [pc EXCEPT ![p] = "idle"]
    /\ local' = [local EXCEPT ![p] = NoLocal]
    /\ LET req == local[p].req
           user == [ID |-> Len(users) + 1, Email |-> req.Email, Username |-> req.Username,
                    Password |-> hashPassword(req.Password),
                    IsActive |-> TRUE, IsAdmin |-> FALSE, LastLogin |-> -1]
       IN IF cancelled
          THEN /\ ret' = [NoRet EXCEPT !.op = "Register", !.err = ErrCreateUserCancelled,
                                       !.req = req, !.ctxErr = TRUE]
               /\ users' = users
          ELSE IF UniqueViolation(user.ID, user.Email, user.Username)
          THEN /\ ret' = [NoRet EXCEPT !.op = "Register", !.err = ErrCreateUser, !.req = req]
               /\ users' = users
          ELSE /\ users' = Append(users, user)
               /\ ret' = [NoRet EXCEPT !.op = "Register", !.req = req, !.user = user,
                                       !.jwt = GenerateToken(user)]
    /\ UNCHANGED <<requests, grants, now, sessions, issued, deactivated, refreshed, cache, cancelled, cacheDown>>

\* ---------------------------------------------------------- sessions table
SessionRows == DOMAIN sessions
\* generateSessionToken: fmt.Sprintf("session_%d", time.Now().UnixNano())
generateSessionToken == <<"session_", now>>
\* A unique index that leaves soft-deleted rows out.
TokenTakenAmongLive(token) ==
    \E i \in SessionRows : ~sessions[i].Deleted /\ sessions[i].Token = token

\* uniqueIndex on token; soft-deleted rows stay in the index
TokenTaken(token) == \E i \in SessionRows : sessions[i].Token = token
\* Rows a query sees: gorm adds deleted_at IS NULL for a model with DeletedAt.
Visible(i) == ~sessions[i].Deleted
\* GetSessionByToken's condition on a row, at a given time:
\* deleted_at IS NULL AND token = ? AND is_active = true AND expires_at > ?
RowResolves(row, token, at) ==
    /\ ~row.Deleted
    /\ row.Token = token
    /\ row.IsActive
    /\ row.ExpiresAt > at
Resolves(i, token) == RowResolves(sessions[i], token, now)
GetSessionByToken(token) ==
    IF \E i \in SessionRows : Resolves(i, token)
    THEN sessions[CHOOSE i \in SessionRows : Resolves(i, token)]
    ELSE NoSession
\* GetSessionsByUser: user_id = ? AND is_active = true
GetSessionsByUser(userID) ==
    {i \in SessionRows : Visible(i) /\ sessions[i].UserID = userID /\ sessions[i].IsActive}
\* Delete(&models.Session{}) with a condition: sets deleted_at on the rows that
\* match it and are not deleted yet
SoftDelete(rows) ==
    [i \in SessionRows |->
        IF i \in rows THEN [sessions[i] EXCEPT !.Deleted = TRUE] ELSE sessions[i]]

\* A DeleteSession whose condition lost the token.
DeleteSessionMatchAnyToken(userID, sessionID, i) ==
    sessions[i].UserID = userID

\* DeleteSession: user_id = ? AND token = ?
DeleteSessionMatch(userID, sessionID, i) ==
    sessions[i].UserID = userID /\ sessions[i].Token = sessionID
\* A DeleteSession that matches the token under any owner.
DeleteSessionRowsOfAnyUser(userID, sessionID) ==
    {i \in SessionRows : Visible(i) /\ sessions[i].Token = sessionID}

\* the rows that DeleteSession's statement affects
DeleteSessionRows(userID, sessionID) ==
    {i \in SessionRows : Visible(i) /\ DeleteSessionMatch(userID, sessionID, i)}
DeleteSession(userID, sessionID) == SoftDelete(DeleteSessionRows(userID, sessionID))
\* A DeleteUserSessions whose condition lost the user.
DeleteUserSessionsRowsOfAll(userID) ==
    {i \in SessionRows : Visible(i)}

\* DeleteUserSessions: user_id = ?
DeleteUserSessionsRows(userID) ==
    {i \in SessionRows : Visible(i) /\ sessions[i].UserID = userID}
DeleteUserSessions(userID) == SoftDelete(DeleteUserSessionsRows(userID))

\* A sweep whose comparison is reversed.
SweepMatchReversed(at, i) == sessions[i].ExpiresAt > at

\* CleanupExpiredSessions: expires_at < ?
SweepMatch(at, i) == sessions[i].ExpiresAt < at
CleanupExpiredRows(at) ==
    {i \in SessionRows : Visible(i) /\ SweepMatch(at, i)}
CleanupExpired(at) == SoftDelete(CleanupExpiredRows(at))

\* ------------------------------------------------------------------- Login
\* A Session value that leaves out where the request came from.
NewSessionWithoutClient(user, req) ==
    [UserID |-> user.ID, Token |-> generateSessionToken,
     ExpiresAt |-> now + SessionLifetime, IPAddress |-> "", UserAgent |-> "",
     IsActive |-> TRUE, Deleted |-> FALSE, CreatedAt |-> -1]

\* The Session value Login builds; gorm fills in CreatedAt when it inserts it.
NewSession(user, req) ==
    [UserID |-> user.ID, Token |-> generateSessionToken,
     ExpiresAt |-> now + SessionLifetime, IPAddress |-> req.IP, UserAgent |-> req.Agent,
     IsActive |-> TRUE, Deleted |-> FALSE, CreatedAt |-> -1]

\* A Login that tells an unknown e-mail apart from a wrong password.
LoginCheckLeaky(email, password) ==
    LET user == GetUserByEmail(email) IN
    IF cancelled THEN ErrInvalidCredentials
    ELSE IF user = NoUser THEN ErrUserNotFound
    ELSE IF ~user.IsActive THEN ErrLoginDeactivated
    ELSE IF ~verifyPassword(password, user.Password) THEN ErrInvalidCredentials
    ELSE NoError

\* The error Login returns before it creates anything, NoError when it goes on.
\* Any error of GetUserByEmail, that of a cancelled context included, becomes
\* "invalid credentials".
LoginCheck(email, password) ==
    LET user == GetUserByEmail(email) IN
    IF cancelled \/ user = NoUser THEN ErrInvalidCredentials
    ELSE IF ~user.IsActive THEN ErrLoginDeactivated
    ELSE IF ~verifyPassword(password, user.Password) THEN ErrInvalidCredentials
    ELSE NoError

\* Entry of Login: GetUserByEmail, active check, password check, GenerateToken,
\* generateSessionToken and the Session value
LoginLookup(p) ==
    /\ pc[p] = "idle"
    /\ \E e \in Emails, pw \in Passwords, ip \in IPs, ua \in Agents :
        LET req == [NoReq EXCEPT !.Email = e, !.Password = pw, !.IP = ip, !.Agent = ua]
            user == GetUserByEmail(req.Email)
            err == LoginCheck(req.Email, req.Password)
        IN IF err # NoError
           THEN /\ ret' = [NoRet EXCEPT !.op = "Login", !.err = err, !.req = req,
                                        !.ctxErr = cancelled]
                /\ UNCHANGED <<requests, grants, pc, local>>
           ELSE /\ pc' = [pc EXCEPT ![p] = "login_create"]
                /\ local' = [local EXCEPT ![p] =
                               [req |-> req, user |-> user, jwt |-> GenerateToken(user),
                                session |-> NewSession(user, req)]]
                /\ ret' = NoRet
    /\ UNCHANGED <<requests, grants, now, users, sessions, issued, deactivated, refreshed, cache, cancelled, cacheDown>>

\* AuthHandler.Login: what the client is sent for the error of authService.Login
LoginResponse(err) ==
    IF err # NoError
    THEN [Status |-> 401, Message |-> "Invalid credentials", Code |-> "LOGIN_FAILED"]
    ELSE [Status |-> 200, Message |-> "", Code |-> ""]

\* sessionRepo.CreateSession
LoginCreateSession(p) ==
    /\ pc[p] = "login_create"
    /\ IF cancelled \/ TokenTaken(local[p].session.Token)
       THEN /\ pc' = [pc EXCEPT ![p] = "idle"]
            /\ local' = [local EXCEPT ![p] = NoLocal]
            /\ ret' = [NoRet EXCEPT !.op = "Login",
                                    !.err = IF cancelled THEN ErrCreateSessionCancelled
                                            ELSE ErrCreateSession,
                                    !.req = local[p].req, !.user = local[p].user,
                                    !.ctxErr = cancelled]
            /\ sessions' = sessions
       ELSE /\ Len(sessions) < MaxSessions
            /\ sessions' = Append(sessions, [local[p].session EXCEPT !.CreatedAt = now])
            /\ pc' = [pc EXCEPT ![p] = "login_save"]
            /\ local' = local
            /\ ret' = NoRet
    /\ UNCHANGED <<requests, grants, now, users, issued, deactivated, refreshed, cache, cancelled, cacheDown>>

\* A Login that gives up when the last-login write fails.
LoginSaveUserOrFail(p) ==
    /\ pc[p] = "login_save"
    /\ pc' = [pc EXCEPT ![p] = "idle"]
    /\ local' = [local EXCEPT ![p] = NoLocal]
    /\ LET user == [local[p].user EXCEPT !.LastLogin = now]
       IN /\ users' = SaveUser(user)
          /\ cache' = IF CacheFails \/ UpdateUserFails(user) THEN cache
                      ELSE cache \cup {<<"user", user.ID>>}
          /\ ret' = IF UpdateUserFails(user)
                    THEN [NoRet EXCEPT !.op = "Login", !.req = local[p].req,
                                       !.err = "failed to update last login",
                                       !.ctxErr = cancelled]
                    ELSE [NoRet EXCEPT !.op = "Login", !.req = local[p].req, !.user = user,
                                       !.jwt = local[p].jwt,
                                       !.sessionID = local[p].session.Token,
                                       !.log = IF CacheFails THEN {WarnCacheUser} ELSE {}]
    /\ UNCHANGED <<requests, grants, now, sessions, issued, deactivated, refreshed, cancelled, cacheDown>>

\* user.LastLogin = &now; userRepo.UpdateUser(user), whose error is printed;
\* cacheRepo.Set("user:<id>"), whose error is printed; return the AuthResponse
LoginSaveUser(p) ==
    /\ pc[p] = "login_save"
    /\ pc' = [pc EXCEPT ![p] = "idle"]
    /\ local' = [local EXCEPT ![p] = NoLocal]
    /\ LET user == [local[p].user EXCEPT !.LastLogin = now]
       IN /\ users' = SaveUser(user)
          /\ cache' = IF CacheFails THEN cache ELSE cache \cup {<<"user", user.ID>>}
          /\ ret' = [NoRet EXCEPT !.op = "Login", !.req = local[p].req, !.user = user,
                                  !.jwt = local[p].jwt,
                                  !.sessionID = local[p].session.Token,
                                  !.log = (IF UpdateUserFails(user) THEN {WarnLastLogin} ELSE {})
                                          \cup (IF CacheFails THEN {WarnCacheUser} ELSE {})]
    /\ UNCHANGED <<requests, grants, now, sessions, issued, deactivated, refreshed, cancelled, cacheDown>>

\* ---------------------------------------------------------- SessionService
\* A Logout that returns the error of the cache.
LogoutCacheFatal(userID, sessionID) ==
    /\ IF cancelled
       THEN /\ sessions' = sessions
            /\ cache' = cache
            /\ ret' = [NoRet EXCEPT !.op = "Logout", !.userID = userID,
                                    !.sessionID = sessionID,
                                    !.err = ErrDeleteSessionCancelled, !.ctxErr = TRUE]
       ELSE /\ sessions' = DeleteSession(userID, sessionID)
            /\ cache' = IF CacheFails THEN cache
                        ELSE cache \ {<<"session", userID, sessionID>>}
            /\ ret' = [NoRet EXCEPT !.op = "Logout", !.userID = userID,
                                    !.sessionID = sessionID,
                                    !.rows = Cardinality(DeleteSessionRows(userID, sessionID)),
                                    !.err = IF CacheFails THEN WarnCacheSession ELSE NoError]
    /\ UNCHANGED <<requests, grants, now, users, issued, pc, local, deactivated, refreshed, cancelled, cacheDown>>

\* SessionService.Logout: sessionRepo.DeleteSession, whose error is returned,
\* then cacheRepo.DeleteUserSession, whose error is printed
Logout(userID, sessionID) ==
    /\ IF cancelled
       THEN /\ sessions' = sessions
            /\ cache' = cache
            /\ ret' = [NoRet EXCEPT !.op = "Logout", !.userID = userID,
                                    !.sessionID = sessionID,
                                    !.err = ErrDeleteSessionCancelled, !.ctxErr = TRUE]
       ELSE /\ sessions' = DeleteSession(userID, sessionID)
            /\ cache' = IF CacheFails THEN cache
                        ELSE cache \ {<<"session", userID, sessionID>>}
            /\ ret' = [NoRet EXCEPT !.op = "Logout", !.userID = userID,
                                    !.sessionID = sessionID,
                                    !.rows = Cardinality(DeleteSessionRows(userID, sessionID)),
                                    !.log = IF CacheFails THEN {WarnCacheSession} ELSE {}]
    /\ UNCHANGED <<requests, grants, now, users, issued, pc, local, deactivated, refreshed, cancelled, cacheDown>>

DeleteAllUserSessions(userID) ==
    /\ sessions' = DeleteUserSessions(userID)
    /\ ret' = [NoRet EXCEPT !.op = "DeleteAllUserSessions", !.userID = userID,
                            !.rows = Cardinality(DeleteUserSessionsRows(userID))]
    /\ UNCHANGED <<requests, grants, now, users, issued, pc, local, deactivated, refreshed, cache, cancelled, cacheDown>>

\* CleanupExpiredSessions: one bulk DELETE with time.Now() as its argument
CleanupExpiredSessions ==
    /\ sessions' = CleanupExpired(now)
    /\ ret' = [NoRet EXCEPT !.op = "CleanupExpiredSessions", !.rows = Cardinality(CleanupExpiredRows(now))]
    /\ UNCHANGED <<requests, grants, now, users, issued, pc, local, deactivated, refreshed, cache, cancelled, cacheDown>>

\* A ValidateToken that treats a token as revoked once it was refreshed.
ValidateTokenErrRevoking(claims) ==
    IF ~JWTValid(claims) \/ claims \in refreshed THEN ErrTokenExpired
    ELSE IF cancelled THEN ErrUserLookupCancelled
    ELSE IF GetUserByID(claims.UserID) = NoUser THEN ErrUserNotFound
    ELSE IF ~GetUserByID(claims.UserID).IsActive THEN ErrDeactivated
    ELSE NoError

\* SessionService.ValidateToken: the error, NoError when the user is returned
ValidateTokenErr(claims) ==
    IF ~JWTValid(claims) THEN ErrTokenExpired
    ELSE IF cancelled THEN ErrUserLookupCancelled
    ELSE IF GetUserByID(claims.UserID) = NoUser THEN ErrUserNotFound
    ELSE IF ~GetUserByID(claims.UserID).IsActive THEN ErrDeactivated
    ELSE NoError

\* A ValidateToken that also wants a live session of the user.
ValidateTokenWithSession(claims) ==
    /\ ret' = [NoRet EXCEPT !.op = "ValidateToken",
                            !.err = IF ValidateTokenErr(claims) = NoError
                                       /\ ~\E i \in GetSessionsByUser(claims.UserID) :
                                             Resolves(i, sessions[i].Token)
                                    THEN ErrTokenExpired ELSE ValidateTokenErr(claims),
                            !.arg = claims]
    /\ UNCHANGED <<requests, grants, now, users, sessions, issued, pc, local, deactivated, refreshed, cache, cancelled, cacheDown>>

\* SessionService.ValidateToken: JWTManager.ValidateToken, then the user read
\* by the id in the claims, and its active flag
ValidateToken(claims) ==
    /\ ret' = [NoRet EXCEPT !.op = "ValidateToken", !.err = ValidateTokenErr(claims),
                            !.arg = claims,
                            !.ctxErr = (ValidateTokenErr(claims) = ErrUserLookupCancelled),
                            !.user = IF ValidateTokenErr(claims) = NoError
                                     THEN GetUserByID(claims.UserID) ELSE NoUser]
    /\ UNCHANGED <<requests, grants, now, users, sessions, issued, pc, local, deactivated, refreshed, cache, cancelled, cacheDown>>

\* A RefreshToken that copies the claims of the presented token, as
\* JWTManager.RefreshToken does.
RefreshTokenFromClaims(claims) ==
    /\ IF ValidateTokenErr(claims) # NoError
       THEN /\ ret' = [NoRet EXCEPT !.op = "RefreshToken", !.arg = claims,
                                    !.err = ValidateTokenErr(claims),
                                    !.ctxErr = (ValidateTokenErr(claims) = ErrUserLookupCancelled)]
            /\ refreshed' = refreshed
       ELSE LET user == GetUserByID(claims.UserID) IN
            /\ ret' = [NoRet EXCEPT !.op = "RefreshToken", !.arg = claims, !.user = user,
                                    !.jwt = [claims EXCEPT !.IssuedAt = now,
                                                           !.ExpiresAt = now + TokenDuration]]
            /\ refreshed' = refreshed \cup {claims}
    /\ UNCHANGED <<requests, grants, now, users, sessions, issued, pc, local, deactivated, cache, cancelled, cacheDown>>

\* SessionService.RefreshToken: ValidateToken, then GenerateToken from the
\* user record that ValidateToken read
RefreshToken(claims) ==
    /\ IF ValidateTokenErr(claims) # NoError
       THEN /\ ret' = [NoRet EXCEPT !.op = "RefreshToken", !.arg = claims,
                                    !.err = ValidateTokenErr(claims),
                                    !.ctxErr = (ValidateTokenErr(claims) = ErrUserLookupCancelled)]
            /\ refreshed' = refreshed
       ELSE LET user == GetUserByID(claims.UserID) IN
            /\ ret' = [NoRet EXCEPT !.op = "RefreshToken", !.arg = claims, !.user = user,
                                    !.jwt = GenerateToken(user)]
            /\ refreshed' = refreshed \cup {claims}
    /\ UNCHANGED <<requests, grants, now, users, sessions, issued, pc, local, deactivated, cache, cancelled, cacheDown>>

\* The caller of Register, Login or RefreshToken keeps the bearer token it got.
KeepToken ==
    /\ ret.jwt # NoClaims
    /\ ret.jwt \notin issued
    /\ Cardinality(issued) < MaxTokens
    /\ issued' = issued \cup {ret.jwt}
    /\ ret' = NoRet
    /\ UNCHANGED <<requests, grants, now, users, sessions, pc, local, deactivated, refreshed, cache, cancelled, cacheDown>>

\* ------------------------------------------------------------- UserService
\* UserService.UpdateUser(user): userRepo.UpdateUser, whose error is returned,
\* then cacheRepo.DeleteUserCache, whose error is logged.
UpdateUser(u) ==
    /\ users' = SaveUser(u)
    /\ cache' = IF UpdateUserFails(u) \/ CacheFails THEN cache ELSE cache \ {<<"user", u.ID>>}
    /\ ret' = [NoRet EXCEPT !.op = "UpdateUser", !.userID = u.ID,
                            !.err = IF UpdateUserFails(u) THEN ErrUpdateUser ELSE NoError,
                            !.ctxErr = cancelled,
                            !.log = IF ~UpdateUserFails(u) /\ CacheFails
                                    THEN {WarnClearCache} ELSE {}]

\* UpdateUser with the stored record changed in one field.
Deactivate(id) ==
    /\ users[id].IsActive
    /\ UpdateUser([users[id] EXCEPT !.IsActive = FALSE])
    /\ deactivated' = IF UpdateUserFails(users[id]) THEN deactivated
                      ELSE deactivated \cup {id}
    /\ UNCHANGED <<requests, grants, now, sessions, issued, pc, local, refreshed, cancelled, cacheDown>>

ChangeEmail(id, email) ==
    /\ users[id].Email # email
    /\ UpdateUser([users[id] EXCEPT !.Email = email])
    /\ UNCHANGED <<requests, grants, now, sessions, issued, pc, local, deactivated, refreshed, cancelled, cacheDown>>

\* SetAdmin: UpdateUser with the administrative flag of the stored record changed.
SetAdmin(id, flag) ==
    /\ users[id].IsAdmin # flag
    /\ UpdateUser([users[id] EXCEPT !.IsAdmin = flag])
    /\ UNCHANGED <<requests, grants, now, sessions, issued, pc, local, deactivated, refreshed, cancelled, cacheDown>>

\* --------------------------------------------------------------- HTTP layer
\* The dynamic types of the values that are kept under "user" in a request
\* context, and asserted by the handlers that read it.
TypeUser == "*models.User"
TypeAuthResponse == "*auth.AuthResponse"

\* RequireAuth: the values it adds to the request context after ValidateToken
\* returned the user; "user" holds what ValidateToken returned, a *models.User.
RequireAuthContext(user) ==
    [user |-> user, userType |-> TypeUser, user_id |-> user.ID, is_admin |-> user.IsAdmin]

\* WriteErrorResponse / the success response, as the status and code sent
Response(op, claims, status, code) ==
    [NoRet EXCEPT !.op = op, !.arg = claims, !.status = status, !.code = code]

\* AuthHandler.Logout behind RequireAuth, for a request with a bearer token and
\* an X-Session-ID header.
AuthHandlerLogout(claims, sessionID) ==
    /\ IF ValidateTokenErr(claims) # NoError
       THEN /\ ret' = [Response("AuthHandler.Logout", claims, 401, "INVALID_TOKEN")
                         EXCEPT !.sessionID = sessionID]
            /\ UNCHANGED <<sessions, cache>>
       ELSE LET ctx == RequireAuthContext(GetUserByID(claims.UserID)) IN
            IF ctx.userType # TypeAuthResponse
            THEN /\ ret' = [Response("AuthHandler.Logout", claims, 401, "NOT_AUTHENTICATED")
                              EXCEPT !.sessionID = sessionID, !.userID = ctx.user_id]
                 /\ UNCHANGED <<sessions, cache>>
            ELSE /\ sessions' = DeleteSession(ctx.user.ID, sessionID)
                 /\ cache' = IF CacheFails THEN cache
                             ELSE cache \ {<<"session", ctx.user.ID, sessionID>>}
                 /\ ret' = [Response("AuthHandler.Logout", claims, 200, "")
                              EXCEPT !.sessionID = sessionID, !.userID = ctx.user_id,
                                     !.rows = Cardinality(DeleteSessionRows(ctx.user.ID, sessionID))]
    /\ UNCHANGED <<requests, grants, now, users, issued, pc, local, deactivated, refreshed, cancelled, cacheDown>>

\* A RequireAdmin that takes the administrative flag from the claims of the token.
RequireAdminFromClaims(claims) ==
    /\ ret' = IF ValidateTokenErr(claims) # NoError
              THEN Response("RequireAdmin", claims, 401, "INVALID_TOKEN")
              ELSE IF ~claims.IsAdmin
              THEN Response("RequireAdmin", claims, 403, "ADMIN_REQUIRED")
              ELSE [Response("RequireAdmin", claims, 200, "")
                      EXCEPT !.user = GetUserByID(claims.UserID)]
    /\ UNCHANGED <<requests, grants, now, users, sessions, issued, pc, local, deactivated, refreshed, cache, cancelled, cacheDown>>

\* RequireAdmin: RequireAuth, then the is_admin value of the request context;
\* status 200 stands for the protected handler being served.
RequireAdmin(claims) ==
    /\ ret' = IF ValidateTokenErr(claims) # NoError
              THEN Response("RequireAdmin", claims, 401, "INVALID_TOKEN")
              ELSE IF ~RequireAuthContext(GetUserByID(claims.UserID)).is_admin
              THEN Response("RequireAdmin", claims, 403, "ADMIN_REQUIRED")
              ELSE [Response("RequireAdmin", claims, 200, "")
                      EXCEPT !.user = RequireAuthContext(GetUserByID(claims.UserID)).user]
    /\ UNCHANGED <<requests, grants, now, users, sessions, issued, pc, local, deactivated, refreshed, cache, cancelled, cacheDown>>

\* ------------------------------------------------------------- RateLimiter
\* the requests of a list that lie inside the window that ends at a given
\* time: reqTime.After(now.Add(-rl.window))
ValidRequests(reqs, at) == SelectSeq(reqs, LAMBDA reqTime : reqTime > at - WindowDuration)

\* A limit check that lets one request too many through.
OverLimitOffByOne(validRequests) == Len(validRequests) > RequestsPerMinute

\* len(validRequests) >= rl.limit
OverLimit(validRequests) == Len(validRequests) >= RequestsPerMinute

\* RateLimiter.IsAllowed(ip).  The mutex is held from the first statement to
\* the return and the clock is read under it, so a call is one step.
IsAllowed(ip) ==
    /\ LET existing == IF ip \in DOMAIN requests THEN requests[ip] ELSE <<>>
           validRequests == ValidRequests(existing, now)
       IN IF OverLimit(validRequests)
          THEN /\ ret' = [NoRet EXCEPT !.op = "IsAllowed", !.req = [NoReq EXCEPT !.IP = ip],
                                       !.status = 429]
               /\ UNCHANGED <<requests, grants>>
          ELSE /\ Len(grants[ip]) < MaxGrants
               /\ requests' = [i \in DOMAIN requests \cup {ip} |->
                                 IF i = ip THEN Append(validRequests, now) ELSE requests[i]]
               /\ grants' = [grants EXCEPT ![ip] = Append(@, now)]
               /\ ret' = [NoRet EXCEPT !.op = "IsAllowed", !.req = [NoReq EXCEPT !.IP = ip],
                                       !.status = 200]
    /\ UNCHANGED <<now, users, sessions, issued, pc, local, deactivated, refreshed, cache,
                   cancelled, cacheDown>>

\* One pass of the loop of cleanupExpired, under the mutex: every list is cut
\* down to the window, and an address with an empty list is deleted.
cleanupExpired ==
    /\ requests' = [ip \in {i \in DOMAIN requests : ValidRequests(requests[i], now) # <<>>} |->
                      ValidRequests(requests[ip], now)]
    /\ ret' = [NoRet EXCEPT !.op = "cleanupExpired"]
    /\ UNCHANGED <<now, users, sessions, issued, pc, local, deactivated, refreshed, cache,
                   cancelled, cacheDown, grants>>

\* ------------------------------------------------------------- environment
\* The context of the calls in progress is cancelled, or its deadline passes.
ContextDone ==
    /\ ~cancelled
    /\ cancelled' = TRUE
    /\ ret' = NoRet
    /\ UNCHANGED <<requests, grants, now, users, sessions, issued, pc, local, deactivated, refreshed, cache,
                   cacheDown>>

\* The next calls come with a context of their own.
NewContext ==
    /\ cancelled
    /\ \A p \in Procs : pc[p] = "idle"
    /\ cancelled' = FALSE
    /\ ret' = NoRet
    /\ UNCHANGED <<requests, grants, now, users, sessions, issued, pc, local, deactivated, refreshed, cache,
                   cacheDown>>

\* The cache goes out of service, or comes back.
CacheOutage(down) ==
    /\ cacheDown # down
    /\ cacheDown' = down
    /\ ret' = NoRet
    /\ UNCHANGED <<requests, grants, now, users, sessions, issued, pc, local, deactivated, refreshed, cache,
                   cancelled>>

\* An entry of the cache reaches the end of its expiration.
CacheExpire(key) ==
    /\ cache' = cache \ {key}
    /\ ret' = NoRet
    /\ UNCHANGED <<requests, grants, now, users, sessions, issued, pc, local, deactivated, refreshed, cancelled,
                   cacheDown>>

\* ------------------------------------------------- Session values in memory
\* The Session value a caller got when it read row i.  No statement writes a
\* column of a session row other than deleted_at, so the value has the row's
\* columns, with deleted_at as it was while the row could be read.
SessionValue(i) == [sessions[i] EXCEPT !.Deleted = FALSE]

\* Session.Extend: s.ExpiresAt = time.Now().Add(duration)
SessionExtend(i, duration) ==
    /\ ret' = [NoRet EXCEPT !.op = "Session.Extend",
                            !.session = [SessionValue(i) EXCEPT !.ExpiresAt = now + duration]]
    /\ UNCHANGED <<requests, grants, now, users, sessions, issued, pc, local, deactivated, refreshed, cache, cancelled, cacheDown>>

\* Session.Deactivate: s.IsActive = false
SessionDeactivate(i) ==
    /\ ret' = [NoRet EXCEPT !.op = "Session.Deactivate",
                            !.session = [SessionValue(i) EXCEPT !.IsActive = FALSE]]
    /\ UNCHANGED <<requests, grants, now, users, sessions, issued, pc, local, deactivated, refreshed, cache, cancelled, cacheDown>>

\* Time passes until a later one of the given instants.
Tick(instants) ==
    /\ \E t \in instants :
          /\ t > now
          /\ now' = t
    /\ ret' = NoRet
    /\ UNCHANGED <<requests, grants, users, sessions, issued, pc, local, deactivated, refreshed, cache, cancelled, cacheDown>>

SessionTokens == {sessions[i].Token : i \in SessionRows}
\* a session id that no Login has issued
UnknownTokens == {<<"session_", -1>>}

\* Registration and credentials, from an empty store: Register calls race with
\* each other, and with one Login at a time.
Next ==
    \/ \E p \in Procs : RegisterCheckEmail(p)
    \/ \E p \in Procs : RegisterCheckUsername(p)
    \/ \E p \in Procs : RegisterCreate(p)
    \/ \E p \in OneProc : LoginLookup(p)
    \/ \E p \in OneProc : LoginCreateSession(p)
    \/ \E p \in OneProc : LoginSaveUser(p)
    \/ \E u \in UserIDs : Deactivate(u)
    \/ Tick(EarlyInstants)

Spec == Init /\ [][Next]_vars

\* A store that holds two registered users.
RegisteredUser(id, email, username) ==
    [ID |-> id, Email |-> email, Username |-> username,
     Password |-> hashPassword("Secret123"),
     IsActive |-> TRUE, IsAdmin |-> FALSE, LastLogin |-> -1]

InitRegistered ==
    /\ now = 0
    /\ users = <<RegisteredUser(1, "a@x.com", "alice"), RegisteredUser(2, "b@x.com", "bob")>>
    /\ sessions = <<>>
    /\ issued = {}
    /\ pc = [p \in Procs |-> "idle"]
    /\ local = [p \in Procs |-> NoLocal]
    /\ deactivated = {}
    /\ refreshed = {}
    /\ cache = {}
    /\ cancelled = FALSE
    /\ cacheDown = FALSE
    /\ requests = [ip \in {} |-> <<>>]
    /\ grants = [ip \in RateIPs |-> <<>>]
    /\ ret = NoRet

\* Credentials against registered accounts.
NextLogin ==
    \/ \E p \in OneProc : LoginLookup(p)
    \/ \E p \in OneProc : LoginCreateSession(p)
    \/ \E p \in OneProc : LoginSaveUser(p)
    \/ \E u \in UserIDs : Deactivate(u)
    \/ Tick(EarlyInstants)

SpecLogin == InitRegistered /\ [][NextLogin]_vars

\* The bearer tokens of Login against the live user record.
NextTokens ==
    \/ \E p \in OneProc : LoginLookup(p)
    \/ \E p \in OneProc : LoginCreateSession(p)
    \/ \E p \in OneProc : LoginSaveUser(p)
    \/ KeepToken
    \/ \E c \in issued : ValidateToken(c)
    \/ \E u \in UserIDs : Deactivate(u)
    \/ \E u \in UserIDs, e \in NewEmails : ChangeEmail(u, e)
    \/ Tick(EarlyInstants)

SpecTokens == InitRegistered /\ [][NextTokens]_vars

\* The life of the bearer tokens that Register hands out, up to their expiry
\* and past it.
NextJWT ==
    \/ \E p \in OneProc : RegisterCheckEmail(p)
    \/ \E p \in OneProc : RegisterCheckUsername(p)
    \/ \E p \in OneProc : RegisterCreate(p)
    \/ KeepToken
    \/ \E c \in issued : ValidateToken(c)
    \/ \E c \in issued : RefreshToken(c)
    \/ \E u \in UserIDs : Deactivate(u)
    \/ \E u \in UserIDs, e \in NewEmails : ChangeEmail(u, e)
    \/ Tick(TokenInstants)

SpecJWT == Init /\ [][NextJWT]_vars

\* Login, Logout and the validation of the token just returned, while contexts
\* are cancelled and the cache fails.
NextFaults ==
    \/ \E p \in OneProc : LoginLookup(p)
    \/ \E p \in OneProc : LoginCreateSession(p)
    \/ \E p \in OneProc : LoginSaveUser(p)
    \/ \E u \in UserIDs, t \in SessionTokens : Logout(u, t)
    \/ \E c \in {ret.jwt} \ {NoClaims} : ValidateToken(c)
    \/ ContextDone
    \/ NewContext
    \/ \E down \in BOOLEAN : CacheOutage(down)
    \/ \E key \in cache : CacheExpire(key)
    \/ Tick(EarlyInstants)

SpecFaults == InitRegistered /\ [][NextFaults]_vars

\* Requests with a bearer token through the middleware, against accounts whose
\* flags change.
NextHTTP ==
    \/ \E p \in OneProc : LoginLookup(p)
    \/ \E p \in OneProc : LoginCreateSession(p)
    \/ \E p \in OneProc : LoginSaveUser(p)
    \/ KeepToken
    \/ \E c \in issued, t \in SessionTokens : AuthHandlerLogout(c, t)
    \/ \E c \in issued : RequireAdmin(c)
    \/ \E u \in ChangedAccounts, flag \in BOOLEAN : SetAdmin(u, flag)
    \/ \E u \in UserIDs : Deactivate(u)
    \/ Tick(EarlyInstants)

SpecHTTP == InitRegistered /\ [][NextHTTP]_vars

\* Revocation of sessions, by their owner and by others, next to the bearer
\* tokens of the Logins that created them.
NextRevoke ==
    \/ \E p \in OneProc : LoginLookup(p)
    \/ \E p \in OneProc : LoginCreateSession(p)
    \/ \E p \in OneProc : LoginSaveUser(p)
    \/ KeepToken
    \/ \E c \in issued : ValidateToken(c)
    \/ \E u \in UserIDs, t \in SessionTokens \cup UnknownTokens : Logout(u, t)
    \/ \E u \in UserIDs : DeleteAllUserSessions(u)
    \/ CleanupExpiredSessions
    \/ \E u \in ChangedAccounts : Deactivate(u)
    \/ Tick(EarlyInstants)

SpecRevoke == InitRegistered /\ [][NextRevoke]_vars

\* Requests of several addresses at the rate limiter, and its cleanup pass.
NextRateLimit ==
    \/ \E ip \in RateIPs : IsAllowed(ip)
    \/ cleanupExpired
    \/ Tick(RateInstants)

SpecRateLimit == Init /\ [][NextRateLimit]_vars

\* The session life cycle.
NextSessions ==
    \/ \E p \in OneProc : LoginLookup(p)
    \/ \E p \in OneProc : LoginCreateSession(p)
    \/ \E p \in OneProc : LoginSaveUser(p)
    \/ \E u \in UserIDs, t \in SessionTokens : Logout(u, t)
    \/ \E u \in UserIDs : DeleteAllUserSessions(u)
    \/ CleanupExpiredSessions
    \/ \E i \in SessionRows, d \in ExtendDurations : SessionExtend(i, d)
    \/ \E i \in SessionRows : SessionDeactivate(i)
    \/ Tick(Instants)

SpecSessions == InitRegistered /\ [][NextSessions]_vars

\* ==================================================================== claims

\* C1: the user store never holds two users with the same e-mail (compared
\* case-insensitively) or two users with the same username.
C1_UniqueEmailAndUsername ==
    \A i, j \in UserIDs :
        i # j => /\ ToLower(users[i].Email) # ToLower(users[j].Email)
                 /\ users[i].Username # users[j].Username

\* C2: a ValidateToken call on an unexpired token of a user whose active flag
\* was set to false fails with the deactivated error, whatever happened to
\* that user in between.
C2_DeactivationRejectsToken ==
    (/\ ret.op = "ValidateToken"
     /\ ret.arg.UserID \in deactivated
     /\ now < ret.arg.ExpiresAt)
    => ret.err = ErrDeactivated

\* C3 as stated: in every store state, a Login with the e-mail of an account
\* and a wrong password gets the same error as a Login with an e-mail that
\* has no account.
C3_SameErrorForEveryAccount ==
    \A known, unknown \in Emails, pw \in Passwords :
        (/\ GetUserByEmail(unknown) = NoUser
         /\ GetUserByEmail(known) # NoUser
         /\ ~verifyPassword(pw, GetUserByEmail(known).Password))
        => LoginCheck(known, pw) = LoginCheck(unknown, pw)

\* C3 as amended: for an account that is active, a Login with its e-mail and a
\* wrong password gets the same error as a Login with an e-mail that has no
\* account.
C3_SameErrorForActiveAccount ==
    \A known, unknown \in Emails, pw \in Passwords :
        (/\ GetUserByEmail(unknown) = NoUser
         /\ GetUserByEmail(known) # NoUser
         /\ GetUserByEmail(known).IsActive
         /\ ~verifyPassword(pw, GetUserByEmail(known).Password))
        => LoginCheck(known, pw) = LoginCheck(unknown, pw)

\* A Login with a wrong password for an active account has just been refused
\* with the credential error, while some e-mail has no account.
C3_Witness ==
    /\ ret.op = "Login"
    /\ ret.err = ErrInvalidCredentials
    /\ GetUserByEmail(ret.req.Email) # NoUser
    /\ GetUserByEmail(ret.req.Email).IsActive
    /\ ~verifyPassword(ret.req.Password, GetUserByEmail(ret.req.Email).Password)
    /\ \E unknown \in Emails : GetUserByEmail(unknown) = NoUser

\* C4: a Login with the e-mail and password of an account that Register
\* created, and that is still active and has not logged in since, succeeds.
C4_LoginAfterRegisterSucceeds ==
    (/\ ret.op = "Login"
     /\ \E i \in UserIDs :
          /\ users[i].Email = ret.req.Email
          /\ verifyPassword(ret.req.Password, users[i].Password)
          /\ users[i].IsActive
          /\ i \notin deactivated
          /\ users[i].LastLogin = -1)
    => ret.err = NoError

\* C5: Register does not get past its e-mail check while a user exists whose
\* e-mail differs from the requested one at most in letter case.
C5_CaseVariantEmailRejected ==
    [][\A p \in Procs :
         (pc[p] = "idle" /\ pc'[p] = "reg_username")
         => ~\E i \in UserIDs : ToLower(users[i].Email) = ToLower(local'[p].req.Email)]_vars

\* C6: Login never answers invalid credentials when an account has the
\* requested e-mail up to letter case and the given password.
C6_LoginFoldsCase ==
    (/\ ret.op = "Login"
     /\ ret.err = ErrInvalidCredentials)
    => ~\E i \in UserIDs :
          /\ ToLower(users[i].Email) = ToLower(ret.req.Email)
          /\ verifyPassword(ret.req.Password, users[i].Password)

\* C7: a Register that fails, fails with the email_taken or the
\* username_taken conflict error, also when it is the insert that is rejected.
C7_ConstraintViolationIsConflict ==
    (ret.op = "Register" /\ ret.err # NoError)
    => ret.err \in {ErrEmailTaken, ErrUsernameTaken}

\* C8: a Logout(userID, sessionID) that names a session of userID leaves that
\* session unresolvable and every other session row as it was.
C8_LogoutOnlyNamedSession ==
    [][(/\ ret'.op = "Logout"
        /\ \E i \in SessionRows :
             sessions[i].Token = ret'.sessionID /\ sessions[i].UserID = ret'.userID)
       => /\ DOMAIN sessions' = DOMAIN sessions
          /\ \A i \in SessionRows :
               /\ ~RowResolves(sessions'[i], ret'.sessionID, now')
               /\ sessions[i].Token # ret'.sessionID => sessions'[i] = sessions[i]]_vars

\* Logout has just removed one session of a user who has another session
\* that still resolves.
C8_Witness ==
    /\ ret.op = "Logout"
    /\ ret.rows = 1
    /\ \E i, j \in SessionRows :
         /\ sessions[i].Token = ret.sessionID
         /\ sessions[i].UserID = ret.userID
         /\ sessions[i].Deleted
         /\ sessions[i].ExpiresAt > now
         /\ sessions[j].UserID = ret.userID
         /\ Resolves(j, sessions[j].Token)

\* C9: a terminated session stays terminated, and no row resolves under its
\* token, after any step.
C9_TerminatedStaysUnresolvable ==
    [][\A i \in SessionRows :
         sessions[i].Deleted
         => /\ i \in DOMAIN sessions'
            /\ sessions'[i].Deleted
            /\ \A j \in DOMAIN sessions' :
                 ~RowResolves(sessions'[j], sessions[i].Token, now')]_vars

\* Session.Extend has just moved the expiry of the value of a terminated
\* session into the future, the value is flagged active, and lookup by its
\* token fails.
C9_Witness ==
    /\ ret.op = "Session.Extend"
    /\ ret.session.IsActive
    /\ ret.session.ExpiresAt > now
    /\ \E i \in SessionRows :
         /\ sessions[i].Deleted
         /\ sessions[i].Token = ret.session.Token
         /\ sessions[i].ExpiresAt < ret.session.ExpiresAt
    /\ GetSessionByToken(ret.session.Token) = NoSession

\* C10: every row that a CleanupExpiredSessions removes has an expiry before
\* the time of the sweep.
C10_SweepRemovesOnlyExpired ==
    [][ret'.op = "CleanupExpiredSessions"
       => \A i \in SessionRows :
            (~sessions[i].Deleted /\ sessions'[i].Deleted) => sessions[i].ExpiresAt < now]_vars

\* A sweep has just removed a row while a Login is in flight and the session
\* of another Login, whose expiry is in the future, is still there.
C10_Witness ==
    /\ ret.op = "CleanupExpiredSessions"
    /\ ret.rows >= 1
    /\ \E p \in Procs : pc[p] = "login_create"
    /\ \E i, j \in SessionRows :
         /\ sessions[i].Deleted
         /\ sessions[i].ExpiresAt < now
         /\ Resolves(j, sessions[j].Token)

\* C11: a RefreshToken that succeeds returns a token for the same user id
\* whose expiry is strictly later than the expiry of the presented token.
C11_RefreshExpiresStrictlyLater ==
    (ret.op = "RefreshToken" /\ ret.err = NoError)
    => /\ ret.jwt.UserID = ret.arg.UserID
       /\ ret.jwt.ExpiresAt > ret.arg.ExpiresAt

\* C12: a token that a successful RefreshToken was given still passes
\* ValidateToken at every instant before its own expiry, while its account
\* is active and was never deactivated.
C12_RefreshDoesNotRevoke ==
    (/\ ret.op = "ValidateToken"
     /\ ret.arg \in refreshed
     /\ now < ret.arg.ExpiresAt
     /\ ret.arg.UserID \in UserIDs
     /\ users[ret.arg.UserID].IsActive
     /\ ret.arg.UserID \notin deactivated)
    => /\ ret.err = NoError
       /\ ret.user = users[ret.arg.UserID]

\* A token issued at an earlier instant and since refreshed has just passed
\* ValidateToken.
C12_Witness ==
    /\ ret.op = "ValidateToken"
    /\ ret.err = NoError
    /\ ret.arg \in refreshed
    /\ ret.arg.IssuedAt < now
    /\ now < ret.arg.ExpiresAt

C14_ExpiryBoundary ==
    ret.op = "ValidateToken"
    => /\ now = ret.arg.ExpiresAt - 1
            => /\ ret.err # ErrTokenExpired
               /\ users[ret.arg.UserID].IsActive => ret.err = NoError
       /\ now = ret.arg.ExpiresAt + 1 => ret.err = ErrTokenExpired

\* ValidateToken has just rejected, one unit after its expiry, a token of an
\* active account.
C14_Witness ==
    /\ ret.op = "ValidateToken"
    /\ now = ret.arg.ExpiresAt + 1
    /\ ret.err = ErrTokenExpired
    /\ users[ret.arg.UserID].IsActive

C16_SessionIdNotFromClock ==
    \A p \in Procs :
        pc[p] = "login_create"
        => /\ \A i \in SessionRows : local[p].session.Token # sessions[i].Token
           /\ local[p].session.Token # <<"session_", local[p].jwt.IssuedAt>>

\* C17: a Login for an existing account whose active flag is false does not
\* go on to create a session; it returns the deactivated error with no token
\* and no session id, and the caller is sent something else than it is sent
\* for invalid credentials.
C17_DeactivatedLoginRefused ==
    [][\A p \in Procs :
         (/\ pc[p] = "idle"
          /\ ~cancelled
          /\ \/ pc'[p] = "login_create"
             \/ pc' = pc /\ ret'.op = "Login")
         => LET req == IF pc' = pc THEN ret'.req ELSE local'[p].req IN
            (GetUserByEmail(req.Email) # NoUser /\ ~GetUserByEmail(req.Email).IsActive)
            => /\ pc' = pc
               /\ ret'.err = ErrLoginDeactivated
               /\ ret'.jwt = NoClaims
               /\ ret'.sessionID = NoToken
               /\ sessions' = sessions
               /\ LoginResponse(ret'.err) # LoginResponse(ErrInvalidCredentials)]_vars

\* C18: an operation whose store call failed because the context was
\* cancelled does not return one of the business errors.
C18_CancellationIsDistinct ==
    ret.ctxErr
    => ret.err \notin {NoError, ErrInvalidCredentials, ErrLoginDeactivated, ErrEmailTaken,
                       ErrUsernameTaken, ErrUserNotFound, ErrDeactivated}

C20_LastLoginIsBestEffort ==
    [][\A p \in Procs :
         (/\ pc[p] = "login_save"
          /\ pc'[p] = "idle"
          /\ UpdateUserFails([local[p].user EXCEPT !.LastLogin = now]))
         => /\ ret'.op = "Login"
            /\ ret'.err = NoError
            /\ ret'.jwt = local[p].jwt
            /\ ret'.sessionID = local[p].session.Token
            /\ \E i \in SessionRows :
                 sessions'[i].Token = ret'.sessionID /\ sessions'[i].UserID = ret'.user.ID
            /\ users' = users
            /\ WarnLastLogin \in ret'.log]_vars

\* A Login has just succeeded with the last-login failure logged: the stored
\* user still has its old last-login time, and the session row is there.
C20_Witness ==
    /\ ret.op = "Login"
    /\ ret.err = NoError
    /\ WarnLastLogin \in ret.log
    /\ users[ret.user.ID].LastLogin # ret.user.LastLogin
    /\ \E i \in SessionRows :
         sessions[i].Token = ret.sessionID /\ Resolves(i, ret.sessionID)

\* C21: a logout request whose bearer token passes RequireAuth and whose
\* session id names a live session of the caller is answered with success,
\* and afterwards that session does not resolve.
C21_LogoutRequestTerminatesSession ==
    [][(/\ ret'.op = "AuthHandler.Logout"
        /\ ValidateTokenErr(ret'.arg) = NoError
        /\ \E i \in SessionRows :
             /\ sessions[i].UserID = ret'.arg.UserID
             /\ Resolves(i, ret'.sessionID))
       => /\ ret'.status = 200
          /\ \A j \in DOMAIN sessions' :
               ~RowResolves(sessions'[j], ret'.sessionID, now')]_vars

\* C22: a Register that succeeds has added one user, with the requested e-mail
\* and username, active and not administrator, and the bearer token it
\* returns passes ValidateToken in the state it returns in and resolves to
\* that user.
C22_RegisterIssuesValidToken ==
    [][\A p \in Procs :
         (pc[p] = "reg_create" /\ pc'[p] = "idle" /\ ret'.err = NoError)
         => /\ Len(users') = Len(users) + 1
            /\ SubSeq(users', 1, Len(users)) = users
            /\ users'[Len(users')].Email = ret'.req.Email
            /\ users'[Len(users')].Username = ret'.req.Username
            /\ users'[Len(users')].IsActive
            /\ ~users'[Len(users')].IsAdmin
            /\ ret'.user = users'[Len(users')]
            /\ ret'.jwt # NoClaims
            /\ (ValidateTokenErr(ret.jwt) = NoError)'
            /\ (GetUserByID(ret.jwt.UserID) = users[Len(users)])']_vars

\* Register has just created a second account, and its token passes
\* ValidateToken and resolves to that account.
C22_Witness ==
    /\ ret.op = "Register"
    /\ ret.err = NoError
    /\ Len(users) = 2
    /\ ret.user = users[2]
    /\ ValidateTokenErr(ret.jwt) = NoError
    /\ GetUserByID(ret.jwt.UserID) = users[2]

\* C23: a DeleteAllUserSessions(userID) terminates every session row of
\* userID, so that afterwards none of them resolves by its token and
\* GetUserSessions(userID) lists nothing, and leaves the rows of every other
\* user as they were.
C23_MassRevokeOnlyOwnSessions ==
    [][ret'.op = "DeleteAllUserSessions"
       => /\ DOMAIN sessions' = DOMAIN sessions
          /\ \A i \in SessionRows :
               IF sessions[i].UserID = ret'.userID
               THEN /\ sessions'[i].Deleted
                    /\ \A j \in SessionRows :
                         ~RowResolves(sessions'[j], sessions[i].Token, now')
               ELSE sessions'[i] = sessions[i]
          /\ GetSessionsByUser(ret.userID)' = {}]_vars

\* DeleteAllUserSessions has just terminated a session of one user while a
\* session of another user still resolves and is listed.
C23_Witness ==
    /\ ret.op = "DeleteAllUserSessions"
    /\ ret.rows >= 1
    /\ \E i, j \in SessionRows :
         /\ sessions[i].UserID = ret.userID
         /\ sessions[i].Deleted
         /\ sessions[j].UserID # ret.userID
         /\ Resolves(j, sessions[j].Token)
         /\ j \in GetSessionsByUser(sessions[j].UserID)

\* C24: for every address and every window of WindowDuration that ends at an
\* instant t, (t - WindowDuration, t], at most RequestsPerMinute of the
\* requests of that address were let through, whatever other addresses asked
\* and whenever the cleanup ran; and a request is refused only when the
\* address's own requests let through in the window that ends now have
\* reached the limit.
C24_RateLimitPerWindow ==
    /\ \A ip \in RateIPs, t \in RateInstants :
         Cardinality({k \in DOMAIN grants[ip] :
                        t - WindowDuration < grants[ip][k] /\ grants[ip][k] <= t})
           <= RequestsPerMinute
    /\ ret.op = "IsAllowed"
       => LET own == Cardinality({k \in DOMAIN grants[ret.req.IP] :
                                    now - WindowDuration < grants[ret.req.IP][k]})
          IN IF ret.status = 200 THEN own >= 1 ELSE own >= RequestsPerMinute

\* An address that had used up its allowance in an earlier window has just
\* been refused again in a later one, while another address, whose list the
\* cleanup has deleted, had requests let through.
C24_Witness ==
    /\ ret.op = "IsAllowed"
    /\ ret.status = 429
    /\ Len(grants[ret.req.IP]) >= 2 * RequestsPerMinute
    /\ \E other \in RateIPs :
         /\ other # ret.req.IP
         /\ grants[other] # <<>>
         /\ other \notin DOMAIN requests

\* C25: RequireAdmin serves the protected handler only when the stored record
\* of the token's user is active and has the administrative flag; a valid
\* token whose claims say administrator, of a user whose record lacks the
\* flag, is refused.
C25_AdminFromFreshRecord ==
    ret.op = "RequireAdmin"
    => /\ ret.status = 200
          => /\ ret.arg.UserID \in UserIDs
             /\ users[ret.arg.UserID].IsActive
             /\ users[ret.arg.UserID].IsAdmin
             /\ ret.user = users[ret.arg.UserID]
       /\ (ret.arg.IsAdmin /\ ~users[ret.arg.UserID].IsAdmin) => ret.status # 200

\* RequireAdmin has just refused, as not administrator, an unexpired token
\* whose claims say administrator, of an active user who has lost the flag.
C25_Witness ==
    /\ ret.op = "RequireAdmin"
    /\ ret.status = 403
    /\ ret.arg.IsAdmin
    /\ now < ret.arg.ExpiresAt
    /\ users[ret.arg.UserID].IsActive
    /\ ~users[ret.arg.UserID].IsAdmin

\* C26: the write-back at the end of Login changes nothing in the users table
\* but the last-login time of the user who logged in: every other field of
\* that row, as other operations left it meanwhile, and every other row stay
\* as they are.
C26_LoginWritesOnlyLastLogin ==
    [][\A p \in Procs :
         (pc[p] = "login_save" /\ pc'[p] = "idle")
         => /\ DOMAIN users' = DOMAIN users
            /\ \A i \in UserIDs :
                 [users'[i] EXCEPT !.LastLogin = users[i].LastLogin] = users[i]]_vars

\* C27: a Login that got past the credential and active checks goes on to
\* insert its session and does not fail, also when another Login ran at the
\* same clock instant, and its session id differs from the id of every
\* session issued before.
C27_EveryLoginGetsOwnSession ==
    [][\A p \in Procs :
         (pc[p] = "login_create" /\ pc'[p] # "login_create")
         => /\ pc'[p] = "login_save"
            /\ Len(sessions') = Len(sessions) + 1
            /\ \A i \in SessionRows : sessions[i].Token # sessions'[Len(sessions')].Token]_vars

C29_LogoutNeedsOwnership ==
    [][ret'.op = "Logout"
       => /\ DOMAIN sessions' = DOMAIN sessions
          /\ \A i \in SessionRows :
               sessions'[i] # sessions[i]
               => sessions[i].UserID = ret'.userID /\ sessions[i].Token = ret'.sessionID
          /\ (~\E i \in SessionRows :
                 /\ ~sessions[i].Deleted
                 /\ sessions[i].UserID = ret'.userID
                 /\ sessions[i].Token = ret'.sessionID)
             => (sessions' = sessions /\ ret'.err = NoError /\ ret'.rows = 0)]_vars

\* Logout has just returned without error and without effect for the id of
\* a session that resolves and belongs to another user.
C29_Witness ==
    /\ ret.op = "Logout"
    /\ ret.err = NoError
    /\ ret.rows = 0
    /\ \E i \in SessionRows :
         /\ sessions[i].Token = ret.sessionID
         /\ sessions[i].UserID # ret.userID
         /\ Resolves(i, ret.sessionID)

\* C30: every session that GetUserSessions lists for a user resolves by its
\* token at the same instant.
C30_ListedSessionsResolve ==
    \A u \in UserIDs :
        \A i \in GetSessionsByUser(u) : Resolves(i, sessions[i].Token)

====
